---- MODULE Spec2Model ----
(***************************************************************************)
(* The TCP load balancer of src/load_balancer/load_balancer.py.            *)
(*                                                                         *)
(* The program is one asyncio event loop: a coroutine runs without         *)
(* interruption from one suspending await to the next.  Acquiring an       *)
(* asyncio.Lock that nobody holds does not suspend, and no coroutine of    *)
(* the program suspends while it holds LoadBalancer.lock or Server.lock,   *)
(* so both locks are always free when they are requested.  Each action     *)
(* below is therefore the code between two suspension points.              *)
(***************************************************************************)
EXTENDS Integers, Sequences, FiniteSets, Bags, TLC

\* main() registers three backends, in this order (configuration order).
NumServers == 3

\* Sessions (accepted client connections) that can be in flight together.
MaxSessions == 2
\* Reservations made in one run of the load balancer.
MaxRequests == 2
\* Selections made in one run of SelectSpec.
MaxPicks == 7
\* Largest active-connection counter SelectSpec starts from.
MaxInitConn == 2

Servers == 1..NumServers
None == 0

VARIABLES
    servers,               \* LoadBalancer.servers (the registry list)
    algorithm,             \* LoadBalancer.algorithm
    is_healthy,            \* Server.is_healthy, per backend
    active_connections,    \* Server.active_connections, per backend
    total_requests,        \* Server.total_requests, per backend
    current_server_index,  \* LoadBalancer.current_server_index (the cursor)
    monitor_pc,            \* where health_check_loop is
    health_results,        \* the outcomes gathered in the running cycle
    sess,                  \* the running handle_client coroutines (a bag)
    picked,                \* SelectSpec: the backends get_next_server returned
                           \* since the healthy set last changed
    main_pc,               \* where LoadBalancer.start is
    running,               \* LoadBalancer.running
    stats_reported,        \* print_stats has run
    marked_in_cycle,       \* history: the backends a dial failure marked
                           \* unhealthy since the running cycle's probes started
    files,                 \* word-count server: the text directory
    cache,                 \* word-count server: the Redis cache
    calls,                 \* word-count server: the count_word calls running
    request_count,         \* WordCountService.request_count, per server
    first_stored           \* history: the count the first computing call
                           \* stored, per (filename, keyword)

vars == <<servers, algorithm, is_healthy, active_connections, total_requests,
          current_server_index, monitor_pc, health_results, sess, picked,
          main_pc, running, stats_reported, marked_in_cycle,
          files, cache, calls, request_count, first_stored>>

\* The state of the word-count servers (src/server/server.py).
wordcount == <<files, cache, calls, request_count, first_stored>>

\* The state of LoadBalancer.start.
main == <<main_pc, running, stats_reported>>

registry == <<is_healthy, active_connections, total_requests,
              current_server_index>>

Algorithms == {"round_robin", "least_connections"}

RECURSIVE SumOver(_, _)
SumOver(f, S) ==
    IF S = {} THEN 0
    ELSE LET x == CHOOSE y \in S : TRUE IN f[x] + SumOver(f, S \ {x})

(***************************************************************************)
(* Server                                                                  *)
(***************************************************************************)

\* Server.__init__: healthy, no connection, no request.
ServerInit ==
    /\ is_healthy = [b \in Servers |-> TRUE]
    /\ active_connections = [b \in Servers |-> 0]
    /\ total_requests = [b \in Servers |-> 0]

\* Only the lifetime counter is raised at selection.
increment_total_only(b) ==
    /\ total_requests' = [total_requests EXCEPT ![b] = @ + 1]
    /\ UNCHANGED active_connections

\* Only the active counter is raised at selection.
increment_active_only(b) ==
    /\ active_connections' = [active_connections EXCEPT ![b] = @ + 1]
    /\ UNCHANGED total_requests

\* Server.increment_connections
increment_connections(b) ==
    /\ active_connections' = [active_connections EXCEPT ![b] = @ + 1]
    /\ total_requests' = [total_requests EXCEPT ![b] = @ + 1]

\* The counter is lowered only while it is above one.
decrement_above_one(b) ==
    active_connections' =
        [active_connections EXCEPT ![b] = IF @ > 1 THEN @ - 1 ELSE @]

\* Server.decrement_connections
decrement_connections(b) ==
    active_connections' = [active_connections EXCEPT ![b] = @ - 1]

(***************************************************************************)
(* Selection                                                               *)
(***************************************************************************)

\* Every configured backend, whatever its health flag.
all_servers == [i \in 1..NumServers |-> i]

\* [s for s in self.servers if s.is_healthy]: the healthy backends in
\* configuration order.
healthy_servers == SelectSeq(servers, LAMBDA b : is_healthy[b])

\* The index taken modulo the number of configured backends, not of the
\* healthy ones.
RoundRobinPickAllModulus(healthy, index) ==
    healthy[((index % NumServers) % Len(healthy)) + 1]

\* healthy_servers[self.current_server_index % len(healthy_servers)]
RoundRobinPick(healthy, index) == healthy[(index % Len(healthy)) + 1]

\* The last, not the first, of the backends with the smallest counter.
LeastConnectionsPickLast(healthy, active) ==
    LET i == CHOOSE i \in 1..Len(healthy) :
                 /\ \A j \in 1..Len(healthy) :
                        active[healthy[i]] <= active[healthy[j]]
                 /\ \A j \in (i + 1)..Len(healthy) :
                        active[healthy[j]] > active[healthy[i]]
    IN healthy[i]

\* max, not min: the first of the backends with the largest counter.
LeastConnectionsPickMost(healthy, active) ==
    LET i == CHOOSE i \in 1..Len(healthy) :
                 /\ \A j \in 1..Len(healthy) :
                        active[healthy[i]] >= active[healthy[j]]
                 /\ \A j \in 1..(i - 1) :
                        active[healthy[j]] < active[healthy[i]]
    IN healthy[i]

\* min(healthy_servers, key=lambda s: s.active_connections): Python's min
\* returns the first of the elements with the smallest key.
LeastConnectionsPick(healthy, active) ==
    LET i == CHOOSE i \in 1..Len(healthy) :
                 /\ \A j \in 1..Len(healthy) :
                        active[healthy[i]] <= active[healthy[j]]
                 /\ \A j \in 1..(i - 1) :
                        active[healthy[j]] > active[healthy[i]]
    IN healthy[i]

\* The cursor is advanced before the healthy list is looked at.
round_robin_cursor_first(server) ==
    /\ current_server_index' = current_server_index + 1
    /\ IF Len(healthy_servers) = 0
       THEN /\ server = None
            /\ UNCHANGED <<active_connections, total_requests>>
       ELSE /\ server = RoundRobinPick(healthy_servers, current_server_index)
            /\ increment_connections(server)

\* The cursor is advanced before it is used as the index.
round_robin_advance_first(server) ==
    LET healthy == healthy_servers IN
    IF healthy = <<>>
    THEN /\ server = None
         /\ UNCHANGED <<active_connections, total_requests,
                        current_server_index>>
    ELSE /\ server = RoundRobinPick(healthy, current_server_index + 1)
         /\ current_server_index' = current_server_index + 1
         /\ increment_connections(server)

\* LoadBalancer._round_robin; server is what it returns (None: no backend).
round_robin(server) ==
    IF Len(healthy_servers) = 0
    THEN /\ server = None
         /\ UNCHANGED <<active_connections, total_requests,
                        current_server_index>>
    ELSE /\ server = RoundRobinPick(healthy_servers, current_server_index)
         /\ current_server_index' = current_server_index + 1
         /\ increment_connections(server)

\* LoadBalancer._least_connections
least_connections(server) ==
    IF Len(healthy_servers) = 0
    THEN /\ server = None
         /\ UNCHANGED <<active_connections, total_requests,
                        current_server_index>>
    ELSE /\ server = LeastConnectionsPick(healthy_servers, active_connections)
         /\ increment_connections(server)
         /\ UNCHANGED current_server_index

\* LoadBalancer.get_next_server
get_next_server(server) ==
    IF algorithm = "round_robin" THEN round_robin(server)
    ELSE IF algorithm = "least_connections" THEN least_connections(server)
    ELSE round_robin(server)

(***************************************************************************)
(* Sessions: handle_client                                                 *)
(*                                                                         *)
(* sess is the bag of the running handle_client coroutines, one record per *)
(* accepted client connection: where the coroutine is (pc), its locals     *)
(* server and server_writer, whether client_writer is closed, the state of *)
(* its two forward_data coroutines (c2s, s2c), and its history: how often  *)
(* it called get_next_server (selects) and open_connection (dials), by how *)
(* much it raised (incs) and lowered (decs) the active-connection counter  *)
(* of its backend, and how often it ran the finally block (teardowns).     *)
(* For the relay it also holds the chunks each reader returned             *)
(* (from_client, from_server) and the chunks given to each writer          *)
(* (to_server, to_client), in order.                                       *)
(***************************************************************************)

\* Chunks one run of RelaySpec has in its live sessions, and what a chunk
\* can be.
MaxChunks == 2
Chunks == {"x", "y"}

\* The locals of handle_client before its first statement.
NoSession ==
    [pc |-> "start", server |-> None, server_writer |-> "none",
     client_closed |-> FALSE, c2s |-> "none", s2c |-> "none",
     selects |-> 0, dials |-> 0, incs |-> 0, decs |-> 0, teardowns |-> 0,
     from_client |-> <<>>, to_server |-> <<>>,
     from_server |-> <<>>, to_client |-> <<>>]

\* The sessions with r replaced by r2.
Replaced(r, r2) == (sess (-) SetToBag({r})) (+) SetToBag({r2})
\* The selection first waits for the probe cycle in flight to end.
HandleClientAfterProbes ==
    /\ main_pc = "serving"
    /\ monitor_pc = "sleep"
    /\ BagCardinality(sess) < MaxSessions
    /\ SumOver(total_requests, Servers) < MaxRequests
    /\ \E server \in {None} \cup Servers :
        /\ get_next_server(server)
        /\ IF server = None
           THEN sess' = sess (+) SetToBag({
                    [NoSession EXCEPT !.pc = "no_server",
                                      !.client_closed = TRUE,
                                      !.selects = @ + 1]})
           ELSE sess' = sess (+) SetToBag({
                    [NoSession EXCEPT !.pc = "dial", !.server = server,
                                      !.selects = @ + 1, !.dials = @ + 1,
                                      !.incs = @ + active_connections'[server]
                                                 - active_connections[server]]})
    /\ UNCHANGED <<servers, wordcount, algorithm, is_healthy, monitor_pc, health_results, picked,
                   main, marked_in_cycle>>

\* A connection is accepted (the server start() created is listening) and
\* handle_client runs up to its first suspension: the selection, then either
\* the close of the client (no backend) or the start of the dial.
HandleClient ==
    /\ main_pc = "serving"
    /\ BagCardinality(sess) < MaxSessions
    /\ SumOver(total_requests, Servers) < MaxRequests
    /\ \E server \in {None} \cup Servers :
        /\ get_next_server(server)
        /\ IF server = None
           THEN sess' = sess (+) SetToBag({
                    [NoSession EXCEPT !.pc = "no_server",
                                      !.client_closed = TRUE,
                                      !.selects = @ + 1]})
           ELSE sess' = sess (+) SetToBag({
                    [NoSession EXCEPT !.pc = "dial", !.server = server,
                                      !.selects = @ + 1, !.dials = @ + 1,
                                      !.incs = @ + active_connections'[server]
                                                 - active_connections[server]]})
    /\ UNCHANGED <<servers, wordcount, algorithm, is_healthy, monitor_pc, health_results, picked,
                   main, marked_in_cycle>>

\* The counter is lowered only when a backend connection was opened.
TeardownIfConnected(r) ==
    /\ IF r.server # None /\ r.server_writer # "none"
       THEN decrement_connections(r.server)
       ELSE UNCHANGED active_connections
    /\ sess' = Replaced(r,
           [r EXCEPT !.pc = "closing", !.client_closed = TRUE,
                     !.teardowns = @ + 1,
                     !.decs = IF r.server = None THEN @
                              ELSE @ + active_connections[r.server]
                                     - active_connections'[r.server]])

\* The teardown of handle_client (its finally block) up to the wait for the
\* client writer to close.
Teardown(r) ==
    /\ IF r.server # None
       THEN decrement_connections(r.server)
       ELSE UNCHANGED active_connections
    /\ sess' = Replaced(r,
           [r EXCEPT !.pc = "closing", !.client_closed = TRUE,
                     !.teardowns = @ + 1,
                     !.decs = IF r.server = None THEN @
                              ELSE @ + active_connections[r.server]
                                     - active_connections'[r.server]])

\* The return after the client was closed for want of a backend.
NoServerReturn(r) ==
    /\ r.pc = "no_server"
    /\ Teardown(r)
    /\ UNCHANGED <<servers, wordcount, algorithm, is_healthy, total_requests,
                   current_server_index, monitor_pc, health_results, picked,
                   main, marked_in_cycle>>

\* open_connection succeeds: the two forward_data coroutines start.
DialOk(r) ==
    /\ r.pc = "dial"
    /\ sess' = Replaced(r,
           [r EXCEPT !.pc = "relay", !.server_writer = "open",
                     !.c2s = "run", !.s2c = "run"])
    /\ UNCHANGED <<servers, wordcount, algorithm, registry, monitor_pc, health_results, picked,
                   main, marked_in_cycle>>

\* The except block lowers the counter too, before the finally block does.
DialFailDecrementsTwice(r) ==
    /\ r.pc = "dial"
    /\ is_healthy' = [is_healthy EXCEPT ![r.server] = FALSE]
    /\ active_connections' = [active_connections EXCEPT ![r.server] = @ - 2]
    /\ sess' = Replaced(r,
           [r EXCEPT !.pc = "closing", !.client_closed = TRUE,
                     !.teardowns = @ + 1, !.decs = @ + 2])
    /\ marked_in_cycle' = IF monitor_pc \in {"probing", "gathered"}
                          THEN marked_in_cycle \cup {r.server}
                          ELSE marked_in_cycle
    /\ UNCHANGED <<servers, wordcount, algorithm, total_requests, current_server_index,
                   monitor_pc, health_results, picked,
                   main>>

\* The except block does not touch the health flag.
DialFailKeepsHealth(r) ==
    /\ r.pc = "dial"
    /\ UNCHANGED is_healthy
    /\ Teardown(r)
    /\ marked_in_cycle' = IF monitor_pc \in {"probing", "gathered"}
                          THEN marked_in_cycle \cup {r.server}
                          ELSE marked_in_cycle
    /\ UNCHANGED <<servers, wordcount, algorithm, total_requests, current_server_index,
                   monitor_pc, health_results, picked,
                   main>>

\* open_connection raises (refused, unreachable, or wait_for's timeout):
\* the except block, then the teardown.
DialFail(r) ==
    /\ r.pc = "dial"
    /\ is_healthy' = [is_healthy EXCEPT ![r.server] = FALSE]
    /\ Teardown(r)
    /\ marked_in_cycle' = IF monitor_pc \in {"probing", "gathered"}
                          THEN marked_in_cycle \cup {r.server}
                          ELSE marked_in_cycle
    /\ UNCHANGED <<servers, wordcount, algorithm, total_requests, current_server_index,
                   monitor_pc, health_results, picked,
                   main>>

\* The chunks read in the live sessions.
ChunksRead ==
    SumOver([r \in BagToSet(sess) |->
                CopiesIn(r, sess) * (Len(r.from_client) + Len(r.from_server))],
            BagToSet(sess))

\* The chunk read from the client is written back to the client.
ForwardClientToServerEchoes(r, data) ==
    /\ r.pc = "relay"
    /\ r.c2s = "run"
    /\ ChunksRead < MaxChunks
    /\ sess' = Replaced(r,
           [r EXCEPT !.from_client = Append(@, data),
                     !.to_client = Append(@, data),
                     !.c2s = IF running THEN "run" ELSE "done",
                     !.server_writer = IF running THEN @ ELSE "closed"])
    /\ UNCHANGED <<servers, wordcount, algorithm, registry, monitor_pc,
                   health_results, picked, main, marked_in_cycle>>

\* forward_data(client_reader, server_writer), one turn of its loop: read
\* returns a chunk, which is written to server_writer and drained; then the
\* loop reads again, or is left (and server_writer closed) when the running
\* flag was cleared.
ForwardClientToServer(r, data) ==
    /\ r.pc = "relay"
    /\ r.c2s = "run"
    /\ ChunksRead < MaxChunks
    /\ sess' = Replaced(r,
           [r EXCEPT !.from_client = Append(@, data),
                     !.to_server = Append(@, data),
                     !.c2s = IF running THEN "run" ELSE "done",
                     !.server_writer = IF running THEN @ ELSE "closed"])
    /\ UNCHANGED <<servers, wordcount, algorithm, registry, monitor_pc,
                   health_results, picked, main, marked_in_cycle>>

\* forward_data(server_reader, client_writer), one turn of its loop.
ForwardServerToClient(r, data) ==
    /\ r.pc = "relay"
    /\ r.s2c = "run"
    /\ ChunksRead < MaxChunks
    /\ sess' = Replaced(r,
           [r EXCEPT !.from_server = Append(@, data),
                     !.to_client = Append(@, data),
                     !.s2c = IF running THEN "run" ELSE "done",
                     !.client_closed = IF running THEN @ ELSE TRUE])
    /\ UNCHANGED <<servers, wordcount, algorithm, registry, monitor_pc,
                   health_results, picked, main, marked_in_cycle>>

\* forward_data(client_reader, server_writer) leaves its loop, on EOF (read
\* returns no data) or on an exception of read, write or drain, which it
\* swallows; either way its finally block closes server_writer.
ForwardClientToServerEnds(r) ==
    /\ r.pc = "relay"
    /\ r.c2s = "run"
    /\ sess' = Replaced(r,
           [r EXCEPT !.c2s = "done", !.server_writer = "closed"])
    /\ UNCHANGED <<servers, wordcount, algorithm, registry, monitor_pc, health_results, picked,
                   main, marked_in_cycle>>

\* The end of the backend-to-client copy loop counts against the backend.
ForwardServerToClientEndsMarksUnhealthy(r) ==
    /\ r.pc = "relay"
    /\ r.s2c = "run"
    /\ is_healthy' = [is_healthy EXCEPT ![r.server] = FALSE]
    /\ sess' = Replaced(r,
           [r EXCEPT !.s2c = "done", !.client_closed = TRUE])
    /\ UNCHANGED <<servers, wordcount, algorithm, active_connections, total_requests,
                   current_server_index, monitor_pc, health_results, picked,
                   main, marked_in_cycle>>

\* forward_data(server_reader, client_writer) leaves its loop likewise and
\* closes client_writer.
ForwardServerToClientEnds(r) ==
    /\ r.pc = "relay"
    /\ r.s2c = "run"
    /\ sess' = Replaced(r,
           [r EXCEPT !.s2c = "done", !.client_closed = TRUE])
    /\ UNCHANGED <<servers, wordcount, algorithm, registry, monitor_pc, health_results, picked,
                   main, marked_in_cycle>>

\* forward_data(client_reader, server_writer) when the other direction has
\* ended: that one closed client_writer, which closes the transport of the
\* client connection; the event loop then feeds EOF to client_reader, read
\* returns no data and the loop is left.
ForwardClientToServerPeerClosed(r) ==
    /\ r.pc = "relay"
    /\ r.s2c = "done"
    /\ ForwardClientToServerEnds(r)

\* server_writer is only half-closed (write_eof), so server_reader is not
\* fed EOF when the other direction has ended.
ForwardServerToClientNotWoken(r) ==
    /\ r.pc = "relay"
    /\ r.c2s = "done"
    /\ r.server_writer = "open"
    /\ ForwardServerToClientEnds(r)

\* forward_data(server_reader, client_writer) when the other direction has
\* ended and closed server_writer: server_reader is fed EOF.
ForwardServerToClientPeerClosed(r) ==
    /\ r.pc = "relay"
    /\ r.c2s = "done"
    /\ ForwardServerToClientEnds(r)

\* An exception of a forward_data coroutine reaches the except block of
\* handle_client, which marks the backend unhealthy.
RelayEndsMarksUnhealthy(r) ==
    /\ r.pc = "relay"
    /\ r.c2s = "done"
    /\ r.s2c = "done"
    /\ is_healthy' = [is_healthy EXCEPT ![r.server] = FALSE]
    /\ Teardown(r)
    /\ UNCHANGED <<servers, wordcount, algorithm, total_requests, current_server_index,
                   monitor_pc, health_results, picked,
                   main, marked_in_cycle>>

\* asyncio.gather returns once both forward_data coroutines have ended;
\* no exception reaches handle_client, so only the teardown runs.
RelayEnds(r) ==
    /\ r.pc = "relay"
    /\ r.c2s = "done"
    /\ r.s2c = "done"
    /\ Teardown(r)
    /\ UNCHANGED <<servers, wordcount, algorithm, is_healthy, total_requests,
                   current_server_index, monitor_pc, health_results, picked,
                   main, marked_in_cycle>>

\* The rest of the finally block: the server writer, if any, is closed and
\* the coroutine ends.
Finish(r) ==
    /\ r.pc = "closing"
    /\ sess' = sess (-) SetToBag({r})
    /\ UNCHANGED <<servers, wordcount, algorithm, registry, monitor_pc, health_results, picked,
                   main, marked_in_cycle>>

(***************************************************************************)
(* Health monitor: health_check_loop                                       *)
(*                                                                         *)
(* monitor_pc is "sleep" before the first cycle and in asyncio.sleep(3),   *)
(* "probing" while gather awaits the probes, and "gathered" once gather    *)
(* holds every outcome and the loop has not yet resumed to write the       *)
(* flags.  After health_task.cancel() it is "cancelling" until the         *)
(* coroutine is resumed with CancelledError, which ends it ("cancelled").  *)
(***************************************************************************)

NoResults == [b \in Servers |-> "pending"]

\* while self.running: the probes of all backends are started.
StartCycle ==
    /\ monitor_pc = "sleep"
    /\ running
    /\ monitor_pc' = "probing"
    /\ health_results' = NoResults
    /\ UNCHANGED <<servers, wordcount, algorithm, registry, sess, picked,
                   main, marked_in_cycle>>

\* gather returns the outcome of check_server_health for every backend:
\* True (connected) or False (any error).
GatherProbes ==
    /\ monitor_pc = "probing"
    /\ \E r \in [Servers -> {"ok", "fail"}] : health_results' = r
    /\ monitor_pc' = "gathered"
    /\ UNCHANGED <<servers, wordcount, algorithm, registry, sess, picked,
                   main, marked_in_cycle>>

\* Only recoveries are written: a failed probe leaves the flag as it was.
ApplyResultsRecoveriesOnly ==
    /\ monitor_pc = "gathered"
    /\ is_healthy' = [b \in Servers |->
                         is_healthy[b] \/ health_results[b] = "ok"]
    /\ monitor_pc' = "sleep"
    /\ health_results' = NoResults
    /\ marked_in_cycle' = {}
    /\ UNCHANGED <<servers, wordcount, algorithm, active_connections, total_requests,
                   current_server_index, sess, picked,
                   main>>

\* Only failures are written: a successful probe leaves the flag as it was.
ApplyResultsFailuresOnly ==
    /\ monitor_pc = "gathered"
    /\ is_healthy' = [b \in Servers |->
                         is_healthy[b] /\ health_results[b] = "ok"]
    /\ monitor_pc' = "sleep"
    /\ health_results' = NoResults
    /\ marked_in_cycle' = {}
    /\ UNCHANGED <<servers, wordcount, algorithm, active_connections, total_requests,
                   current_server_index, sess, picked,
                   main>>

\* A backend whose probe failed is taken out of the registry.
ApplyResultsDropsFailed ==
    /\ monitor_pc = "gathered"
    /\ is_healthy' = [b \in Servers |-> health_results[b] = "ok"]
    /\ servers' = SelectSeq(servers, LAMBDA b : health_results[b] = "ok")
    /\ monitor_pc' = "sleep"
    /\ health_results' = NoResults
    /\ marked_in_cycle' = {}
    /\ UNCHANGED <<wordcount, algorithm, active_connections, total_requests,
                   current_server_index, sess, picked,
                   main>>

\* gather has every outcome: each flag is set to its outcome, then the loop
\* sleeps.
ApplyResults ==
    /\ monitor_pc = "gathered"
    /\ is_healthy' = [b \in Servers |-> health_results[b] = "ok"]
    /\ monitor_pc' = "sleep"
    /\ health_results' = NoResults
    /\ marked_in_cycle' = {}
    /\ UNCHANGED <<servers, wordcount, algorithm, active_connections, total_requests,
                   current_server_index, sess, picked,
                   main>>

(***************************************************************************)
(* The word-count server: src/server/server.py                             *)
(*                                                                         *)
(* Every backend runs a WordCountService, and all of them share one Redis  *)
(* cache.  A string is a sequence of characters.  A server serves its      *)
(* connection one call at a time, in a thread of its own, so a call is     *)
(* interleaved with the calls of the other servers at its Redis and file   *)
(* operations.  calls[s] is the call server s is serving: where it is      *)
(* (pc), its arguments and, once it has returned, its result.              *)
(***************************************************************************)

\* Calls made in one run of WordCountSpec.
MaxCalls == 3

\* The file names and keywords clients ask for, and what a file can hold.
Filenames == {<<"f">>, <<"f", ":", "A">>}
Keywords == {<<"A">>, <<"A", ":", "A">>}
Texts == {<<"a", "A">>, <<"a", ":", "a">>}

Idle == [pc |-> "idle"]

\* No entry: the empty cache, the empty directory (files, cache and
\* first_stored are functions on the names, keys and pairs that exist).
Empty == [x \in {} |-> x]

\* The function f with x mapped to v (a new x included).
Put(f, x, v) == [y \in DOMAIN f \cup {x} |-> IF y = x THEN v ELSE f[y]]

\* str.lower
Lower(str) == [i \in 1..Len(str) |-> IF str[i] = "A" THEN "a" ELSE str[i]]

\* text[i..].count(sub): the occurrences of sub from position i on, found
\* from left to right without overlap.
RECURSIVE CountFrom(_, _, _)
CountFrom(text, sub, i) ==
    IF i + Len(sub) - 1 > Len(text) THEN 0
    ELSE IF SubSeq(text, i, i + Len(sub) - 1) = sub
         THEN 1 + CountFrom(text, sub, i + Len(sub))
         ELSE CountFrom(text, sub, i + 1)

\* text.lower().count(keyword.lower())
CountWord(text, keyword) == CountFrom(Lower(text), Lower(keyword), 1)

Digits == <<"0", "1", "2", "3", "4", "5", "6", "7", "8", "9">>

\* What Redis keeps of a count (its decimal digits), and int() of it.
RECURSIVE ToStr(_)
ToStr(n) ==
    IF n < 10 THEN <<Digits[n + 1]>>
    ELSE ToStr(n \div 10) \o <<Digits[(n % 10) + 1]>>

RECURSIVE ToInt(_)
ToInt(str) ==
    IF str = <<>> THEN 0
    ELSE 10 * ToInt(SubSeq(str, 1, Len(str) - 1))
         + (CHOOSE d \in 0..9 : Digits[d + 1] = str[Len(str)])

\* f"{filename}:{keyword}"
cache_key(filename, keyword) == filename \o <<":">> \o keyword

\* No call yet, an empty cache, and some text directory.
WordCountInit ==
    /\ \E existing \in SUBSET Filenames : files \in [existing -> Texts]
    /\ cache = Empty
    /\ calls = [s \in Servers |-> Idle]
    /\ request_count = [s \in Servers |-> 0]
    /\ first_stored = Empty

\* The word-count servers as the load balancer model leaves them.
WordCountUnused ==
    /\ files = Empty
    /\ cache = Empty
    /\ calls = [s \in Servers |-> Idle]
    /\ request_count = [s \in Servers |-> 0]
    /\ first_stored = Empty

\* The load balancer variables, which count_word does not touch.
balancer == <<servers, algorithm, registry, monitor_pc, health_results, sess,
              picked, main, marked_in_cycle>>

\* The dictionary count_word returns (server: the server of the call).
Result(call, count, cached, error) ==
    [pc |-> "returned", keyword |-> call.keyword,
     filename |-> call.filename, request_number |-> call.request_number,
     count |-> count, cached |-> cached, error |-> error]

\* exposed_count_word up to the answer of redis get: the request counter
\* is raised and a cache hit is returned.
CountWordGet(s, keyword, filename) ==
    /\ calls[s] = Idle
    /\ SumOver(request_count, Servers) < MaxCalls
    /\ request_count' = [request_count EXCEPT ![s] = @ + 1]
    /\ LET call == [pc |-> "miss", keyword |-> keyword,
                    filename |-> filename,
                    request_number |-> request_count'[s]]
           key == cache_key(filename, keyword)
       IN  calls' = [calls EXCEPT ![s] =
                        IF key \in DOMAIN cache
                        THEN Result(call, ToInt(cache[key]), TRUE, "none")
                        ELSE call]
    /\ UNCHANGED <<files, cache, first_stored, balancer>>

\* A missing file is remembered in the cache as count -1.
CountWordReadCachesError(s) ==
    /\ calls[s].pc = "miss"
    /\ LET call == calls[s] IN
           IF call.filename \notin DOMAIN files
           THEN /\ calls' = [calls EXCEPT ![s] =
                                Result(call, -1, FALSE, "File not found")]
                /\ cache' = Put(cache,
                                cache_key(call.filename, call.keyword),
                                <<"-", "1">>)
           ELSE /\ calls' = [calls EXCEPT ![s] =
                                [call EXCEPT !.pc = "computed"] @@
                                [count |-> CountWord(files[call.filename],
                                                     call.keyword)]]
                /\ UNCHANGED cache
    /\ UNCHANGED <<files, request_count, first_stored, balancer>>

\* After a miss: a file that does not exist is answered with count -1 and
\* the error; an existing file is read and the keyword counted.
CountWordRead(s) ==
    /\ calls[s].pc = "miss"
    /\ LET call == calls[s] IN
           calls' = [calls EXCEPT ![s] =
                        IF call.filename \notin DOMAIN files
                        THEN Result(call, -1, FALSE, "File not found")
                        ELSE [call EXCEPT !.pc = "computed"] @@
                             [count |-> CountWord(files[call.filename],
                                                  call.keyword)]]
    /\ UNCHANGED <<files, cache, request_count, first_stored, balancer>>

\* redis set of the count, then the return.
CountWordSet(s) ==
    /\ calls[s].pc = "computed"
    /\ LET call == calls[s] IN
        /\ cache' = Put(cache, cache_key(call.filename, call.keyword),
                        ToStr(call.count))
        /\ calls' = [calls EXCEPT ![s] =
                        Result(call, call.count, FALSE, "none")]
        /\ first_stored' =
               IF <<call.filename, call.keyword>> \in DOMAIN first_stored
               THEN first_stored
               ELSE Put(first_stored, <<call.filename, call.keyword>>,
                        call.count)
    /\ UNCHANGED <<files, request_count, balancer>>

\* The client has the result; the server waits for the next call.
CountWordReturned(s) ==
    /\ calls[s].pc = "returned"
    /\ calls' = [calls EXCEPT ![s] = Idle]
    /\ UNCHANGED <<files, cache, request_count, first_stored, balancer>>

(***************************************************************************)
(* The load balancer: start                                                *)
(*                                                                         *)
(* main_pc is "serving" in serve_forever, "wait_closed" while the exit of  *)
(* `async with server` waits for the closed server, "await_health_task"    *)
(* in the finally block, and "done" when start has returned.               *)
(***************************************************************************)

\* What can end serve_forever: the interrupt raised in start, or the
\* cancellation of the task that runs start.
Exceptions == {"KeyboardInterrupt", "CancelledError"}

\* The state of start while it serves.
Serving ==
    /\ main_pc = "serving"
    /\ running = TRUE
    /\ stats_reported = FALSE

\* serve_forever is left with an exception; the exit of `async with server`
\* closes the listening socket and waits in wait_closed.
StopServing ==
    /\ main_pc = "serving"
    /\ main_pc' = "wait_closed"
    /\ UNCHANGED <<servers, wordcount, algorithm, registry, monitor_pc, health_results, sess,
                   picked, running, stats_reported, marked_in_cycle>>

\* The finally block clears the running flag and goes straight on; the
\* health task is left to see the flag at its next iteration.
StopHealthTaskFlagOnly ==
    /\ main_pc = "wait_closed"
    /\ \E exc \in Exceptions :
           stats_reported' = (exc = "KeyboardInterrupt")
    /\ running' = FALSE
    /\ main_pc' = "done"
    /\ UNCHANGED <<servers, wordcount, algorithm, registry, monitor_pc, health_results, sess,
                   picked, marked_in_cycle>>

\* wait_closed returns and the exception exc that ended serve_forever
\* leaves the with block: except KeyboardInterrupt prints the statistics
\* (print_stats); the finally block clears the running flag, cancels the
\* health task (its gather, with the outcomes, is cancelled at once) and
\* awaits it.
StopHealthTask ==
    /\ main_pc = "wait_closed"
    /\ \E exc \in Exceptions :
           stats_reported' = (exc = "KeyboardInterrupt")
    /\ running' = FALSE
    /\ monitor_pc' = "cancelling"
    /\ health_results' = NoResults
    /\ main_pc' = "await_health_task"
    /\ UNCHANGED <<servers, wordcount, algorithm, registry, sess, picked, marked_in_cycle>>

\* health_check_loop is resumed with CancelledError, which nothing in it
\* catches: the task ends.
HealthTaskCancelled ==
    /\ monitor_pc = "cancelling"
    /\ monitor_pc' = "cancelled"
    /\ UNCHANGED <<servers, wordcount, algorithm, registry, health_results, sess, picked, main,
                   marked_in_cycle>>

\* await health_task raises CancelledError, which is passed over: start
\* returns.
StartReturns ==
    /\ main_pc = "await_health_task"
    /\ monitor_pc = "cancelled"
    /\ main_pc' = "done"
    /\ UNCHANGED <<servers, wordcount, algorithm, registry, monitor_pc, health_results, sess,
                   picked, running, stats_reported, marked_in_cycle>>

\* main() has registered the backends.
Registered == servers = [i \in 1..NumServers |-> i]

Init ==
    /\ Registered
    /\ algorithm \in Algorithms
    /\ ServerInit
    /\ current_server_index = 0
    /\ monitor_pc = "sleep"
    /\ health_results = NoResults
    /\ sess = EmptyBag
    /\ picked = <<>>
    /\ Serving
    /\ marked_in_cycle = {}
    /\ WordCountUnused

Next ==
    \/ HandleClient
    \/ \E r \in BagToSet(sess) : NoServerReturn(r)
    \/ \E r \in BagToSet(sess) : DialOk(r)
    \/ \E r \in BagToSet(sess) : DialFail(r)
    \/ \E r \in BagToSet(sess) : ForwardClientToServerEnds(r)
    \/ \E r \in BagToSet(sess) : ForwardServerToClientEnds(r)
    \/ \E r \in BagToSet(sess) : ForwardClientToServerPeerClosed(r)
    \/ \E r \in BagToSet(sess) : ForwardServerToClientPeerClosed(r)
    \/ \E r \in BagToSet(sess) : RelayEnds(r)
    \/ \E r \in BagToSet(sess) : Finish(r)
    \/ StartCycle
    \/ GatherProbes
    \/ ApplyResults

\* The load balancer while it serves.
Spec == Init /\ [][Next]_vars

\* What the event loop guarantees of a session: a reader whose transport
\* was closed is fed EOF and its forward_data resumed; handle_client is
\* resumed when gather has both results.  Nothing is assumed of the peers.
SessionFairness ==
    /\ WF_vars(\E r \in BagToSet(sess) : ForwardClientToServerPeerClosed(r))
    /\ WF_vars(\E r \in BagToSet(sess) : ForwardServerToClientPeerClosed(r))
    /\ WF_vars(\E r \in BagToSet(sess) : RelayEnds(r))

\* The load balancer while it serves, under that fairness.
LiveSpec == Init /\ [][Next]_vars /\ SessionFairness

\* The load balancer up to the return of start.
ShutdownNext ==
    \/ Next
    \/ StopServing
    \/ StopHealthTask
    \/ HealthTaskCancelled
    \/ StartReturns

ShutdownSpec == Init /\ [][ShutdownNext]_vars

(***************************************************************************)
(* Selection alone: get_next_server called again and again, from any       *)
(* active-connection counters, while health flags change between calls.    *)
(***************************************************************************)

\* The registry with a1, a2, a3 sessions in flight on the three backends and
\* none ended yet (the state after that many sessions were accepted while
\* only their backend was healthy).
SelectInit ==
    /\ Registered
    /\ algorithm \in Algorithms
    /\ is_healthy = [b \in Servers |-> TRUE]
    /\ active_connections \in [Servers -> 0..MaxInitConn]
    /\ total_requests = active_connections
    /\ current_server_index = 0
    /\ monitor_pc = "sleep"
    /\ health_results = NoResults
    /\ sess = EmptyBag
    /\ picked = <<>>
    /\ Serving
    /\ marked_in_cycle = {}
    /\ WordCountUnused

\* One call of get_next_server that returns a backend.
Select ==
    /\ Len(picked) < MaxPicks
    /\ SumOver(total_requests, Servers) < MaxPicks + NumServers * MaxInitConn
    /\ \E server \in Servers :
        /\ get_next_server(server)
        /\ picked' = Append(picked, server)
    /\ UNCHANGED <<servers, wordcount, algorithm, is_healthy, monitor_pc, health_results, sess,
                   main, marked_in_cycle>>

\* A health flag is written with another value (by health_check_loop or by
\* the except block of handle_client).
SetHealth(b) ==
    /\ is_healthy' = [is_healthy EXCEPT ![b] = ~@]
    /\ picked' = <<>>
    /\ UNCHANGED <<servers, wordcount, algorithm, active_connections, total_requests,
                   current_server_index, monitor_pc, health_results, sess,
                   main, marked_in_cycle>>

SelectNext ==
    \/ Select
    \/ \E b \in Servers : SetHealth(b)

SelectSpec == SelectInit /\ [][SelectNext]_vars

(***************************************************************************)
(* The relay: the sessions from accept to end with the chunks they copy,   *)
(* while the health monitor sleeps.  (No session is then left without a    *)
(* backend: three dial failures use up the reservations of a run.)         *)
(***************************************************************************)

RelayNext ==
    \/ HandleClient
    \/ \E r \in BagToSet(sess) : DialOk(r)
    \/ \E r \in BagToSet(sess) : DialFail(r)
    \/ \E r \in BagToSet(sess), data \in Chunks : ForwardClientToServer(r, data)
    \/ \E r \in BagToSet(sess), data \in Chunks : ForwardServerToClient(r, data)
    \/ \E r \in BagToSet(sess) : ForwardClientToServerEnds(r)
    \/ \E r \in BagToSet(sess) : ForwardServerToClientEnds(r)
    \/ \E r \in BagToSet(sess) : ForwardClientToServerPeerClosed(r)
    \/ \E r \in BagToSet(sess) : ForwardServerToClientPeerClosed(r)
    \/ \E r \in BagToSet(sess) : RelayEnds(r)
    \/ \E r \in BagToSet(sess) : Finish(r)

RelaySpec == Init /\ [][RelayNext]_vars

(***************************************************************************)
(* The word-count servers alone: count_word called again and again on the  *)
(* three servers, behind a load balancer that is left as it started.       *)
(***************************************************************************)

WordCountSpecInit ==
    /\ Registered
    /\ algorithm = "round_robin"
    /\ ServerInit
    /\ current_server_index = 0
    /\ monitor_pc = "sleep"
    /\ health_results = NoResults
    /\ sess = EmptyBag
    /\ picked = <<>>
    /\ Serving
    /\ marked_in_cycle = {}
    /\ WordCountInit

WordCountNext ==
    \/ \E s \in Servers, keyword \in Keywords, filename \in Filenames :
           CountWordGet(s, keyword, filename)
    \/ \E s \in Servers : CountWordRead(s)
    \/ \E s \in Servers : CountWordSet(s)
    \/ \E s \in Servers : CountWordReturned(s)

WordCountSpec == WordCountSpecInit /\ [][WordCountNext]_vars

(***************************************************************************)
(* Properties                                                              *)
(***************************************************************************)

\* The position of backend b in the sequence h.
IndexIn(h, b) == CHOOSE i \in 1..Len(h) : h[i] = b

\* How often b occurs in seq[i..j].
CountIn(seq, b, i, j) == Cardinality({n \in i..j : seq[n] = b})

AllHealthy == \A b \in Servers : is_healthy[b]

\* C1: under round-robin, in any N consecutive selections made while the
\* healthy set (of k backends) does not change, every healthy backend is
\* selected floor(N/k) or ceil(N/k) times and each selection is the successor
\* of the one before in configuration order, with wraparound; with A, B, C
\* healthy and the cursor starting at 0 the selections are A,B,C,A,B,C,A.
C1_RoundRobinCycle ==
    algorithm = "round_robin" =>
        LET h == healthy_servers
            k == Len(h)
            n == Len(picked)
        IN  /\ \A i \in 1..n : \E p \in 1..k : h[p] = picked[i]
            /\ \A i \in 1..n : \A j \in i..n : \A p \in 1..k :
                   CountIn(picked, h[p], i, j) \in
                       {(j - i + 1) \div k, (j - i + 1 + k - 1) \div k}
            /\ \A i \in 1..(n - 1) :
                   IndexIn(h, picked[i + 1]) = (IndexIn(h, picked[i]) % k) + 1
            /\ (AllHealthy /\ current_server_index = n) =>
                   picked = SubSeq(<<1, 2, 3, 1, 2, 3, 1, 2, 3, 1, 2, 3>>, 1, n)

\* Seven selections from cursor 0 with all three backends healthy.
C1_Witness ==
    /\ algorithm = "round_robin"
    /\ AllHealthy
    /\ current_server_index = 7
    /\ picked = <<1, 2, 3, 1, 2, 3, 1>>

\* The counters before the selections recorded in picked.
CountersBeforePicked ==
    [b \in Servers |->
        active_connections[b] - CountIn(picked, b, 1, Len(picked))]

\* C2: under least-connections every selection returns a healthy backend
\* whose active-connection counter is the minimum over the healthy backends,
\* and the one of smallest configuration index among those at the minimum;
\* from counters A=2, B=0, C=1 the first two selections both return B.
C2_LeastConnectionsMinimum ==
    /\ [][(algorithm = "least_connections" /\ Len(picked') = Len(picked) + 1)
            => LET b == picked'[Len(picked')]
               IN  /\ is_healthy[b]
                   /\ \A o \in Servers : is_healthy[o] =>
                          /\ active_connections[b] <= active_connections[o]
                          /\ o < b =>
                                 active_connections[o] > active_connections[b]
          ]_vars
    /\ []((/\ algorithm = "least_connections"
           /\ AllHealthy
           /\ CountersBeforePicked = <<2, 0, 1>>)
          => \A i \in 1..Len(picked) : i <= 2 => picked[i] = 2)

\* Counters A=2, B=0, C=1, then two selections: B, and B again.
C2_Witness ==
    /\ algorithm = "least_connections"
    /\ AllHealthy
    /\ picked = <<2, 2>>
    /\ active_connections = <<2, 2, 1>>

\* The sessions running now, and after the step.
Live == BagToSet(sess)
LiveNext == BagToSet(sess')

\* A new session r2 starts in this step (handle_client up to its first
\* suspension).
Starts(r2) == sess' = sess (+) SetToBag({r2})

\* A session in state r takes a step: to state r2, or to its end.
Leaves(r) == CopiesIn(r, sess') < CopiesIn(r, sess)
Moves(r, r2) == r # r2 /\ BagIn(r, sess) /\ sess' = Replaced(r, r2)
Ends(r) == BagIn(r, sess) /\ sess' = sess (-) SetToBag({r})

\* A session holding a reservation that its teardown has not yet released.
InFlight(r) == r.pc \in {"dial", "relay"}

\* The number of sessions in flight on backend b.
InFlightOn(b) ==
    SumOver([r \in Live |->
                IF InFlight(r) /\ r.server = b THEN CopiesIn(r, sess) ELSE 0],
            Live)

\* What the sessions whose backend is b have added to its counter, net.
NetReserved(b) ==
    SumOver([r \in Live |->
                IF r.server = b
                THEN CopiesIn(r, sess) * (r.incs - r.decs) ELSE 0],
            Live)

\* C3: no active-connection counter is ever negative, and a counter is
\* lowered only by one, by a session that raised this very counter before
\* and has not lowered it yet.
C3_CounterNonNegativePaired ==
    /\ [](\A b \in Servers : active_connections[b] >= 0)
    /\ [][\A b \in Servers :
            active_connections'[b] < active_connections[b] =>
                /\ active_connections'[b] = active_connections[b] - 1
                /\ \E r \in Live, r2 \in LiveNext :
                       /\ Moves(r, r2)
                       /\ r.server = b
                       /\ r.incs = 1
                       /\ r.decs = 0
                       /\ r2.decs = 1
         ]_vars

\* A session has lowered the counter it raised, back to 0.
C3_Witness ==
    \E r \in Live :
        /\ r.pc = "closing"
        /\ r.server # None
        /\ r.incs = 1
        /\ r.decs = 1
        /\ active_connections[r.server] = 0

\* C4: a session that reserved a backend runs its teardown exactly once,
\* however it ends (dial failure, or relay ended by EOF or error on either
\* side), and the teardown lowers the backend's counter exactly once: the
\* counter is then what the other sessions' reservations make it.
C4_TeardownExactlyOnce ==
    /\ [](\A r \in Live :
            /\ InFlight(r) =>
                  r.incs = 1 /\ r.decs = 0 /\ r.teardowns = 0
            /\ (r.pc = "closing" /\ r.server # None) =>
                  r.incs = 1 /\ r.decs = 1 /\ r.teardowns = 1)
    /\ [](\A b \in Servers : active_connections[b] = NetReserved(b))
    /\ [][\A r \in Live :
            /\ (InFlight(r) /\ Leaves(r)) =>
                  \E r2 \in LiveNext :
                      /\ Moves(r, r2)
                      /\ r2.server = r.server
                      /\ \/ InFlight(r2) /\ UNCHANGED active_connections
                         \/ /\ r2.pc = "closing"
                            /\ active_connections' =
                                   [active_connections EXCEPT
                                       ![r.server] = @ - 1]
            /\ (r.pc = "closing" /\ Leaves(r)) =>
                  Ends(r) /\ UNCHANGED active_connections
         ]_vars

\* One session torn down after a dial failure, another after a relay, both
\* counters back at 0.
C4_Witness ==
    \E r, t \in Live :
        /\ r.pc = "closing"
        /\ r.server # None
        /\ r.server_writer = "none"
        /\ r.decs = 1
        /\ t.pc = "closing"
        /\ t.c2s = "done" /\ t.s2c = "done"
        /\ t.decs = 1
        /\ \A b \in Servers : active_connections[b] = 0

\* C5: under both algorithms the backend a selection returns has its health
\* flag true when the selection is made; with B marked unhealthy round-robin
\* returns only A and C.
C5_SelectedIsHealthy ==
    [][\A r2 \in LiveNext :
          (Starts(r2) /\ r2.server # None) =>
              /\ is_healthy[r2.server]
              /\ (algorithm = "round_robin" /\ ~is_healthy[2] /\ is_healthy[1]
                    /\ is_healthy[3]) => r2.server \in {1, 3}
      ]_vars

\* Round-robin: A was selected at cursor 0, and with B unhealthy the
\* selection at cursor 1 returned C.
C5_Witness ==
    /\ algorithm = "round_robin"
    /\ ~is_healthy[2]
    /\ current_server_index = 2
    /\ total_requests = <<1, 0, 1>>
    /\ \E r, t \in Live :
           /\ r.pc = "dial" /\ r.server = 1
           /\ t.pc = "dial" /\ t.server = 3

\* The step that ends a health-check cycle.
CycleEnds == monitor_pc = "gathered" /\ monitor_pc' = "sleep"

\* C6: a backend whose probe failed in a cycle has its flag false when the
\* cycle ends; a false flag becomes true only at the end of a cycle in which
\* the backend's probe succeeded, and no selection returns a backend whose
\* flag is false.
C6_FailedProbeExcluded ==
    [][/\ CycleEnds =>
              \A b \in Servers :
                  health_results[b] = "fail" => ~is_healthy'[b]
       /\ \A b \in Servers :
              (~is_healthy[b] /\ is_healthy'[b]) =>
                  (CycleEnds /\ health_results[b] = "ok")
       /\ \A r2 \in LiveNext :
              (Starts(r2) /\ r2.server # None) => is_healthy[r2.server]
      ]_vars

\* B never had a session, so only a failed probe can have cleared its flag;
\* the cycle is over, and the round-robin selection at cursor 1 returned C.
C6_Witness ==
    /\ monitor_pc = "sleep"
    /\ ~is_healthy[2]
    /\ total_requests = <<1, 0, 1>>
    /\ algorithm = "round_robin"
    /\ \E r \in Live : r.pc = "dial" /\ r.server = 3

\* A session that found no backend.
Unserved(r) == r.pc = "no_server" \/ (r.pc = "closing" /\ r.server = None)

\* C7: with no healthy backend the selection returns None; the session
\* closes the client, never dials or forwards, selects once only, and none of
\* its steps changes a counter, a health flag or the cursor.
C7_NoBackendAvailable ==
    /\ [](\A r \in Live :
            Unserved(r) =>
                /\ r.client_closed
                /\ r.server = None
                /\ r.server_writer = "none"
                /\ r.c2s = "none" /\ r.s2c = "none"
                /\ r.selects = 1
                /\ r.dials = 0)
    /\ [][/\ \A r2 \in LiveNext :
                (Starts(r2) /\ Len(healthy_servers) = 0) =>
                    r2.pc = "no_server" /\ UNCHANGED registry
          /\ \A r \in Live :
                (Unserved(r) /\ Leaves(r)) =>
                    /\ UNCHANGED registry
                    /\ IF r.pc = "closing" THEN Ends(r)
                       ELSE \E r2 \in LiveNext :
                                Moves(r, r2) /\ r2.pc = "closing"
                                    /\ r2.server = None
         ]_vars

\* No backend is healthy and a session has ended without one.
C7_Witness ==
    /\ \A b \in Servers : ~is_healthy[b]
    /\ \E r \in Live :
           /\ r.pc = "closing"
           /\ r.server = None
           /\ r.client_closed
           /\ r.selects = 1

\* C8: a failed dial marks the selected backend unhealthy in the same step,
\* closes the client and releases the reservation; the session then only
\* ends: it has selected once and dialed once.
C8_DialFailure ==
    /\ [][\A r \in Live :
            /\ (r.pc = "dial" /\ Leaves(r)) =>
                   \E r2 \in LiveNext :
                       /\ Moves(r, r2)
                       /\ r2.server = r.server
                       /\ r2.selects = 1 /\ r2.dials = 1
                       /\ \/ r2.pc = "relay"
                          \/ /\ r2.pc = "closing"
                             /\ ~is_healthy'[r.server]
                             /\ r2.client_closed
                             /\ r2.server_writer = "none"
                             /\ active_connections' =
                                    [active_connections EXCEPT
                                        ![r.server] = @ - 1]
                             /\ UNCHANGED <<total_requests,
                                            current_server_index>>
            /\ (r.pc = "closing" /\ Leaves(r)) =>
                   Ends(r) /\ UNCHANGED registry
         ]_vars
    /\ [](\A r \in Live : r.pc = "closing" => r.selects = 1 /\ r.dials <= 1)

\* A session ended by a dial failure: its backend is unhealthy, its client
\* closed, the counter released.
C8_Witness ==
    \E r \in Live :
        /\ r.pc = "closing"
        /\ r.server # None
        /\ r.server_writer = "none"
        /\ r.dials = 1
        /\ r.client_closed
        /\ ~is_healthy[r.server]
        /\ active_connections[r.server] = 0

\* C9: no step of a session in relay, or ending after a relay, writes a
\* health flag, whatever ended each direction (EOF or error); the session
\* closes both endpoints and releases its reservation, so with no other
\* session on the backend the counter is back at 0.
C9_RelayErrorKeepsHealth ==
    /\ [][\A r \in Live :
            /\ (r.pc = "relay" /\ Leaves(r)) =>
                   /\ UNCHANGED is_healthy
                   /\ \E r2 \in LiveNext :
                          /\ Moves(r, r2)
                          /\ r2.pc \in {"relay", "closing"}
                          /\ r2.pc = "closing" =>
                                 /\ r2.client_closed
                                 /\ r2.server_writer = "closed"
                                 /\ active_connections' =
                                        [active_connections EXCEPT
                                            ![r.server] = @ - 1]
            /\ (r.pc = "closing" /\ r.c2s # "none" /\ Leaves(r)) =>
                   UNCHANGED is_healthy /\ Ends(r)
         ]_vars
    /\ [](\A r \in Live :
            (r.pc = "closing" /\ r.c2s # "none"
               /\ InFlightOn(r.server) = 0) =>
                active_connections[r.server] = 0)

\* The backend accepted and the relay ended: the only session is closed, the
\* counter is 0, the flag still true.
C9_Witness ==
    \E r \in Live :
        /\ r.pc = "closing"
        /\ r.c2s = "done" /\ r.s2c = "done"
        /\ r.client_closed
        /\ r.server_writer = "closed"
        /\ is_healthy[r.server]
        /\ active_connections[r.server] = 0
        /\ BagCardinality(sess) = 1

\* C10: a selection reads counters that hold the reservation of every
\* session in flight (and, under round-robin, a cursor that counts every
\* earlier selection) and raises the chosen backend's counter in the same
\* step, before the dial: no state has a session with a chosen backend and
\* no increment.
C10_AtomicReservation ==
    /\ [][\A r2 \in LiveNext :
            (Starts(r2) /\ r2.server # None) =>
                /\ \A b \in Servers : active_connections[b] = InFlightOn(b)
                /\ algorithm = "round_robin" =>
                       current_server_index =
                           SumOver(total_requests, Servers)
                /\ active_connections' =
                       [active_connections EXCEPT ![r2.server] = @ + 1]
                /\ r2.pc = "dial"
                /\ r2.server_writer = "none"
         ]_vars
    /\ [](\A r \in Live :
            r.server # None =>
                /\ r.incs = 1
                /\ r.pc = "dial" => active_connections[r.server] >= 1)

\* Least-connections, two sessions dialing at once: the second selection saw
\* the first one's reservation on A and chose B.
C10_Witness ==
    /\ algorithm = "least_connections"
    /\ AllHealthy
    /\ active_connections = <<1, 1, 0>>
    /\ \E r, t \in Live :
           /\ r.pc = "dial" /\ r.server = 1
           /\ t.pc = "dial" /\ t.server = 2

\* A session in the relay one of whose copy loops has exited.
HalfEnded(r) == r.pc = "relay" /\ (r.c2s = "done" \/ r.s2c = "done")

\* C11: once either direction's copy loop has exited, the session is torn
\* down without waiting for the peer of the other direction: the other copy
\* loop ends too, both endpoints are closed and the teardown runs.  A session
\* with an ended direction never returns to relaying, it leaves the relay
\* only through the teardown, with both loops ended, the client writer and
\* the server writer closed, and it does leave it.
C11_RelayTornDown ==
    /\ [][\A r \in Live : HalfEnded(r) /\ Leaves(r) =>
              \E r2 \in LiveNext :
                  /\ Moves(r, r2)
                  /\ r2.server = r.server
                  /\ r.c2s = "done" => r2.c2s = "done"
                  /\ r.s2c = "done" => r2.s2c = "done"
                  /\ \/ HalfEnded(r2)
                     \/ /\ r2.pc = "closing"
                        /\ r.c2s = "done" /\ r.s2c = "done"
                        /\ r2.client_closed
                        /\ r2.server_writer = "closed"
                        /\ r2.teardowns = r.teardowns + 1]_vars
    /\ (\E r \in Live : HalfEnded(r)) ~> (\A r \in Live : ~HalfEnded(r))

\* A session was torn down after its relay, both loops ended and both
\* endpoints closed, while another session is still relaying both ways.
C11_Witness ==
    \E r, t \in Live :
        /\ r.pc = "closing" /\ r.c2s = "done" /\ r.s2c = "done"
        /\ r.client_closed /\ r.server_writer = "closed"
        /\ t.pc = "relay" /\ t.c2s = "run" /\ t.s2c = "run"

\* Session r's dial fails in this step: handle_client passes from the dial
\* to its teardown without a backend connection.
DialFails(r) ==
    /\ r.pc = "dial"
    /\ \E r2 \in LiveNext :
           Moves(r, r2) /\ r2.pc = "closing" /\ r2.server_writer = "none"

\* C12: a health flag is written only by the health monitor at the end of a
\* probe cycle (every flag, to its outcome) and by a session whose dial
\* fails (the flag of its backend, to false); every other step (selection,
\* reservation, relaying, teardown, probing) leaves all flags as they are.
C12_HealthFlagWriters ==
    [][is_healthy' # is_healthy =>
           \/ /\ CycleEnds
              /\ sess' = sess
              /\ is_healthy' = [b \in Servers |-> health_results[b] = "ok"]
           \/ /\ monitor_pc' = monitor_pc
              /\ \E r \in Live :
                     /\ DialFails(r)
                     /\ is_healthy[r.server]
                     /\ is_healthy' = [is_healthy EXCEPT ![r.server] = FALSE]
      ]_vars

\* Both writers have written: a cycle marked B, which nobody selected, and
\* in the next cycle a dial failure marked A.
C12_Witness ==
    /\ monitor_pc = "probing"
    /\ marked_in_cycle = {1}
    /\ is_healthy = <<FALSE, FALSE, TRUE>>
    /\ total_requests[2] = 0
    /\ \E r \in Live :
           r.pc = "closing" /\ r.server = 1 /\ r.server_writer = "none"

\* C13: on shutdown the listening socket is closed, so no session starts any
\* more, and the health task is cancelled and awaited wherever it is (asleep,
\* probing, or about to write the gathered outcomes): from the cancellation
\* on no probe cycle starts or ends and the monitor writes no flag, and start
\* returns only when the health task has ended.
C13_ShutdownStopsMonitor ==
    /\ [](main_pc = "done" => monitor_pc = "cancelled")
    /\ [](~running <=> main_pc \in {"await_health_task", "done"})
    /\ [](~running => monitor_pc \in {"cancelling", "cancelled"})
    /\ [][main_pc # "serving" =>
              /\ main_pc' # "serving"
              /\ BagCardinality(sess') <= BagCardinality(sess)]_vars
    /\ [][~running =>
              /\ ~running'
              /\ monitor_pc' \in {"cancelling", "cancelled"}
              /\ health_results' = NoResults
              /\ is_healthy' # is_healthy => \E r \in Live : DialFails(r)
         ]_vars

\* start has returned after a shutdown that cancelled the health task in
\* the middle of a cycle (a dial had failed since its probes started), and a
\* session is still relaying.
C13_Witness ==
    /\ main_pc = "done"
    /\ monitor_pc = "cancelled"
    /\ marked_in_cycle # {}
    /\ \E r \in Live : r.pc = "relay"

\* C14: on every shutdown the statistics have been reported when start
\* returns, whether serve_forever was ended by the interrupt or by the
\* cancellation of the serving task.
C14_StatsReportedOnShutdown == main_pc = "done" => stats_reported

\* C15: a new connection never waits on another session or on the health
\* monitor.  While the load balancer serves, whatever the other sessions
\* (dialing, relaying, closing) and the monitor (asleep, probing, about to
\* write) are doing, a connection can be accepted and its handle_client run
\* through selection and reservation in one step, which changes nothing of
\* the other sessions and of the monitor.
C15_AcceptNeverWaits ==
    /\ []((/\ main_pc = "serving"
           /\ BagCardinality(sess) < MaxSessions
           /\ SumOver(total_requests, Servers) < MaxRequests)
          => ENABLED HandleClient)
    /\ [][\A r2 \in LiveNext :
              Starts(r2) =>
                  /\ r2.pc \in {"dial", "no_server"}
                  /\ r2.selects = 1
                  /\ r2.pc = "dial" <=> r2.server # None
                  /\ r2.pc = "dial" <=> healthy_servers # <<>>
                  /\ monitor_pc' = monitor_pc
                  /\ health_results' = health_results
                  /\ is_healthy' = is_healthy
         ]_vars

\* A session has done its selection and reservation and is dialing while
\* another one is relaying both ways and a probe cycle is in flight.
C15_Witness ==
    /\ monitor_pc = "probing"
    /\ \E r, t \in Live :
           /\ r.pc = "relay" /\ r.c2s = "run" /\ r.s2c = "run"
           /\ t.pc = "dial"

\* C16: a probe cycle has an outcome for every backend and, at its end, sets
\* the flag of each backend to that backend's own outcome; so a backend that
\* is unhealthy for whatever reason and whose probe succeeded is healthy, and
\* in the list selection chooses from, at the end of that cycle.
C16_CycleSetsEachFlag ==
    /\ [](monitor_pc = "gathered" =>
              \A b \in Servers : health_results[b] \in {"ok", "fail"})
    /\ [][CycleEnds =>
              \A b \in Servers :
                  /\ is_healthy'[b] = (health_results[b] = "ok")
                  /\ health_results[b] = "ok" =>
                         \E i \in 1..Len(healthy_servers') :
                             healthy_servers'[i] = b
                  /\ health_results[b] = "fail" =>
                         \A i \in 1..Len(healthy_servers') :
                             healthy_servers'[i] # b
         ]_vars

\* The backend of a session whose dial failed is healthy again, a cycle
\* having ended since, before that session has even finished closing.
C16_Witness ==
    /\ monitor_pc = "sleep"
    /\ marked_in_cycle = {}
    /\ \E r \in Live :
           /\ r.pc = "closing" /\ r.server # None
           /\ r.server_writer = "none"
           /\ is_healthy[r.server]

\* C17: once a dial failure has marked a backend unhealthy, its flag stays
\* false until a probe started after that failure succeeds: the end of the
\* cycle whose probes were started before the failure leaves the backend
\* unhealthy.
C17_StaleProbeKeepsMark ==
    [][CycleEnds => \A b \in marked_in_cycle : ~is_healthy'[b]]_vars

\* C18: under round-robin a selection that finds k > 0 healthy backends
\* returns the one at index (cursor mod k) of the healthy list, which is in
\* configuration order, and advances the cursor by one, k being the healthy
\* count at that selection; a selection that finds none leaves the cursor.
\* The cursor never decreases, nothing else moves it, and it counts the
\* successful selections exactly (none lost, none counted twice).
C18_CursorAdvance ==
    /\ [](algorithm = "round_robin" =>
              current_server_index = SumOver(total_requests, Servers))
    /\ [](algorithm = "least_connections" => current_server_index = 0)
    /\ [](\A i, j \in 1..Len(healthy_servers) :
              i < j => healthy_servers[i] < healthy_servers[j])
    /\ [][/\ current_server_index' >= current_server_index
          /\ current_server_index' # current_server_index =>
                 \E r2 \in LiveNext : Starts(r2) /\ r2.server # None
          /\ algorithm = "round_robin" =>
                 \A r2 \in LiveNext :
                     Starts(r2) =>
                         LET k == Len(healthy_servers) IN
                         IF k = 0
                         THEN /\ r2.server = None
                              /\ current_server_index' = current_server_index
                         ELSE /\ r2.server =
                                   healthy_servers[
                                       (current_server_index % k) + 1]
                              /\ current_server_index' =
                                   current_server_index + 1
         ]_vars

\* Two selections with different healthy counts: cursor 0 of three healthy
\* backends gave A, then cursor 1 of one healthy backend gave A (1 mod 1 = 0).
C18_Witness ==
    /\ algorithm = "round_robin"
    /\ current_server_index = 2
    /\ total_requests = <<2, 0, 0>>
    /\ is_healthy = <<TRUE, FALSE, FALSE>>

\* C19: a reservation raises the lifetime counter of its backend by exactly
\* one in the step that raises the active counter, nothing else changes a
\* lifetime counter (a failed dial and the teardown leave it), it never
\* decreases, and it is at least the active counter in every state.
C19_LifetimeCounter ==
    /\ [](\A b \in Servers : total_requests[b] >= active_connections[b])
    /\ [][\A b \in Servers :
              /\ total_requests'[b] >= total_requests[b]
              /\ active_connections'[b] > active_connections[b] =>
                     /\ active_connections'[b] = active_connections[b] + 1
                     /\ total_requests'[b] = total_requests[b] + 1
              /\ total_requests'[b] # total_requests[b] =>
                     /\ total_requests'[b] = total_requests[b] + 1
                     /\ active_connections'[b] = active_connections[b] + 1
                     /\ \E r2 \in LiveNext : Starts(r2) /\ r2.server = b
         ]_vars

\* The dial of the only reservation on a backend failed: the backend's
\* lifetime counter is 1 and its active counter is back to 0.
C19_Witness ==
    \E r \in Live :
        /\ r.pc = "closing" /\ r.server # None
        /\ r.server_writer = "none"
        /\ total_requests[r.server] = 1
        /\ active_connections[r.server] = 0

\* C20: the active counter of each backend is the number of sessions that
\* reserved it and have not yet run the decrement of their teardown (they
\* are dialing or relaying); when no session is in flight every counter is 0.
C20_ActiveCountsInFlight ==
    /\ \A b \in Servers : active_connections[b] = InFlightOn(b)
    /\ (\A r \in Live : ~InFlight(r)) =>
           \A b \in Servers : active_connections[b] = 0

\* Two sessions reserved backends and both have ended: no session is left
\* and every counter is 0.
C20_Witness ==
    /\ sess = EmptyBag
    /\ SumOver(total_requests, Servers) = 2
    /\ \A b \in Servers : active_connections[b] = 0

\* C21: under least-connections, when the healthy backends had equal
\* active-connection counters and selections were then made with the healthy
\* set fixed and no session torn down, the counters of any two healthy
\* backends differ by at most 1, however many selections were made.
C21_LeastConnectionsBalanced ==
    (/\ algorithm = "least_connections"
     /\ \A b, c \in Servers :
            (is_healthy[b] /\ is_healthy[c]) =>
                CountersBeforePicked[b] = CountersBeforePicked[c])
    => \A b, c \in Servers :
           (is_healthy[b] /\ is_healthy[c]) =>
               active_connections[b] - active_connections[c] <= 1

\* Seven selections from counters 1, 1, 1: A, B, C, A, B, C, A.
C21_Witness ==
    /\ algorithm = "least_connections"
    /\ AllHealthy
    /\ CountersBeforePicked = <<1, 1, 1>>
    /\ picked = <<1, 2, 3, 1, 2, 3, 1>>
    /\ active_connections = <<4, 3, 3>>

\* Server s takes up a call in this step.
CallStarts(s) == calls[s] = Idle /\ calls'[s] # Idle

\* C24: once a count_word call on an existing file has computed and stored
\* a count for a keyword and filename, every call with that keyword and
\* filename taken up later, on any server, returns cached = True and the
\* count the first such call stored, and leaves the cache as it is.
C24_CachedCountStable ==
    [][\A s \in Servers :
           (/\ CallStarts(s)
            /\ <<calls'[s].filename, calls'[s].keyword>>
                   \in DOMAIN first_stored)
           => /\ calls'[s].pc = "returned"
              /\ calls'[s].cached
              /\ calls'[s].count =
                     first_stored[calls'[s].filename, calls'[s].keyword]
              /\ cache' = cache
      ]_vars

\* C25: a count_word call that finds no cache entry for its key and whose
\* file does not exist returns count -1, cached = False and the error
\* 'File not found', and neither of its steps writes to the cache: the key
\* still has no entry when the call returns unless another call stored one,
\* so the same call made again misses the cache and gets the same result.
C25_MissingFileNotCached ==
    /\ [][\A s \in Servers :
              (/\ CallStarts(s)
               /\ cache_key(calls'[s].filename, calls'[s].keyword)
                      \notin DOMAIN cache)
              => /\ calls'[s].pc = "miss"
                 /\ cache' = cache
         ]_vars
    /\ [][\A s \in Servers :
              (/\ calls[s].pc = "miss"
               /\ calls'[s] # calls[s]
               /\ calls[s].filename \notin DOMAIN files)
              => /\ calls'[s].pc = "returned"
                 /\ calls'[s].count = -1
                 /\ calls'[s].cached = FALSE
                 /\ calls'[s].error = "File not found"
                 /\ calls'[s].keyword = calls[s].keyword
                 /\ calls'[s].filename = calls[s].filename
                 /\ cache' = cache
         ]_vars
    /\ [](\A s \in Servers :
              calls[s].pc = "returned" =>
                  (calls[s].error = "File not found" <=> calls[s].count = -1))

\* Two calls were made on server A while no file exists: the second one
\* also returned the error, and the cache is still empty.
C25_Witness ==
    /\ request_count = <<2, 0, 0>>
    /\ calls[1].pc = "returned"
    /\ calls[1].request_number = 2
    /\ calls[1].error = "File not found"
    /\ calls[1].count = -1
    /\ ~calls[1].cached
    /\ cache = Empty
    /\ files = Empty

\* C23: after startup the registry is fixed: it is the list of the backends
\* main registered, in that order, in every state, and no step (session,
\* selection, probe cycle, dial failure, shutdown) adds, removes or reorders
\* a backend; a backend whose flag goes to unhealthy keeps its place.
C23_RegistryFixed ==
    /\ [](servers = [i \in 1..NumServers |-> i])
    /\ [](DOMAIN is_healthy = Servers)
    /\ [][servers' = servers]_vars
    /\ [][\A i \in 1..Len(servers) :
              (is_healthy[servers[i]] /\ ~is_healthy'[servers[i]]) =>
                  /\ Len(servers') = Len(servers)
                  /\ servers'[i] = servers[i]
                  /\ total_requests'[servers[i]] = total_requests[servers[i]]
         ]_vars

\* Every backend has been marked unhealthy, one of them by a dial failure,
\* and start has returned: the registry still lists all three.
C23_Witness ==
    /\ main_pc = "done"
    /\ is_healthy = <<FALSE, FALSE, FALSE>>
    /\ servers = <<1, 2, 3>>
    /\ \E r \in Live :
           r.pc = "closing" /\ r.server # None /\ r.server_writer = "none"

\* The sequence s is a prefix of the sequence t.
IsPrefix(s, t) == Len(s) <= Len(t) /\ SubSeq(t, 1, Len(s)) = s

\* C22: during relay each direction copies on its own.  At every moment the
\* chunks written to the server are a prefix of the chunks read from the
\* client, and the chunks written to the client a prefix of the chunks read
\* from the server: same chunks, same order, none dropped, duplicated,
\* reordered or written to the other direction's destination.  A direction
\* that has ended has written all it read, and once its source has reported
\* EOF or an error nothing more is written to its destination; what was
\* written is never taken back.
C22_RelayCopiesInOrder ==
    /\ [](\A r \in Live :
            /\ IsPrefix(r.to_server, r.from_client)
            /\ IsPrefix(r.to_client, r.from_server)
            /\ r.c2s = "done" => r.to_server = r.from_client
            /\ r.s2c = "done" => r.to_client = r.from_server
            /\ r.pc # "relay" /\ r.pc # "closing" =>
                 r.to_server = <<>> /\ r.to_client = <<>>)
    /\ [][\A r \in Live, r2 \in LiveNext :
            Moves(r, r2) =>
              /\ IsPrefix(r.to_server, r2.to_server)
              /\ IsPrefix(r.to_client, r2.to_client)
              /\ r.c2s = "done" => r2.to_server = r.to_server
              /\ r.s2c = "done" => r2.to_client = r.to_client]_vars

\* C22's case: while the server-to-client copy still runs, the client-to-server
\* copy has read two different chunks and EOF, and the server was written both
\* chunks in the order read.
C22_Witness ==
    \E r \in Live :
        /\ r.pc = "relay"
        /\ r.c2s = "done"
        /\ r.s2c = "run"
        /\ r.from_client = <<"x", "y">>
        /\ r.to_server = <<"x", "y">>
        /\ r.to_client = <<>>

====
